---- MODULE Spec2Model ----
(***************************************************************************)
(* Model of the quanta-chat plugin's server: the WebSocket signaling hub   *)
(* (WebRTCServer), the broadcast pipeline (onBroadcast / persist) and the  *)
(* relational store (DBRoom, DBMessages, DBAttachments, schema.sql) with   *)
(* the HTTP handlers of ChatService that mutate it.                        *)
(*                                                                         *)
(* Node runs one handler at a time; another handler can run only where the *)
(* running one awaits.  Every action below is the code between two awaits. *)
(* A promise that the code starts and does not await (the insert started   *)
(* by persistMessageToRoomName) is a task of its own.                      *)
(***************************************************************************)
EXTENDS Integers, Sequences, FiniteSets, TLC

\* ------------------------------------------------------------ bounds
\* number of client requests (frames received, HTTP requests) in a run
MaxOps == 3
\* broadcast frames whose pipeline is in flight at the same time
MaxTasks == 2

\* ------------------------------------------------------------ input alphabets
Conns == {"c1", "c2", "c3"}
Keys == {"kA", "kB"}
\* config.get("adminPublicKey")
ADMIN_PUBLIC_KEY == "kAdmin"
\* the room createTestData wipes and fills
TestRoom == "test"
RoomNames == {"r1", TestRoom}
\* a frame without the room field (msg.room is undefined)
NoRoom == ""
\* a signaling frame without the target field
NoTarget == ""
\* a join frame whose user has no publicKey
NoKey == ""
\* the classes of detached signatures: "valid" verifies, "invalid" does not,
\* NoSignature is a frame without the signature field
NoSignature == "none"
Signatures == {"valid", "invalid", NoSignature}
\* SQL NULL
NULL == "NULL"
SAVED == "SAVED"
SENT == "SENT"
MsgIds == {"m1", "m2"}
\* ids of the rows createTestData inserts (70 in the code, `test-msg-<n>-<timestamp>`)
TestMsgIds == {"t1", "t2"}
SignalTypes == {"offer", "answer", "ice-candidate"}
\* the clock (Date.now()) in days; the runs are short against a day
Now == 40

\* The chat messages clients send.  signature is the class of the detached
\* signature: "valid" verifies against publicKey over the canonical form.
ChatMessages ==
    { [id |-> "m1", publicKey |-> "kA", signature |-> "valid",   content |-> "x",
       state |-> SENT, attachments |-> <<"f1">>, timestamp |-> Now - 1],
      [id |-> "m1", publicKey |-> "kB", signature |-> "valid",   content |-> "y",
       state |-> SENT, attachments |-> <<"f2">>, timestamp |-> Now - 2],
      [id |-> "m2", publicKey |-> "kA", signature |-> "invalid", content |-> "x",
       state |-> SENT, attachments |-> << >>, timestamp |-> Now - 3],
      [id |-> "m2", publicKey |-> "kB", signature |-> "valid",   content |-> "y",
       state |-> SENT, attachments |-> << >>, timestamp |-> Now - 35] }

\* The display name a connection's client uses (User.name)
User(c, k) == [name |-> c, publicKey |-> k]

VARIABLES
    wssClients,    \* wss.clients: the sockets the server holds
    readyState,    \* readyState of each socket
    clientsMap,    \* WebRTCServer.clientsMap : socket -> ClientInfo
    roomsMap,      \* WebRTCServer.roomsMap : room name -> participants (publicKey -> User)
    rooms,         \* table rooms(id, name)
    nextRoomId,    \* the SERIAL of rooms.id
    messages,      \* table messages
    attachments,   \* table attachments
    nextAttId,     \* the SERIAL of attachments.id
    blocked_keys,  \* table blocked_keys
    tasks,         \* broadcast pipelines in flight (onBroadcast invocations)
    blockPending,  \* block-user requests between deleteUserContent and blockUser
    everInserted,  \* ids of all message rows ever inserted (history)
    out,           \* frames the last step sent, per socket (ws.send, in order)
    lastOp,        \* what the last step was, with its arguments and result
    ops,           \* client requests so far
    idb,           \* the client's IndexedDB entry of the room it opens (roomPrefix + room)
    sync,          \* the client's loadRoomMessages invocation
    rtc            \* the WebRTC instance of each client (by its public key)

hubVars == <<wssClients, readyState, clientsMap, roomsMap>>
storeVars == <<rooms, nextRoomId, messages, attachments, nextAttId, blocked_keys, everInserted>>
clientVars == <<idb, sync, rtc>>
vars == <<wssClients, readyState, clientsMap, roomsMap, rooms, nextRoomId, messages,
          attachments, nextAttId, blocked_keys, tasks, blockPending, everInserted,
          out, lastOp, ops, idb, sync, rtc>>

TaskIds == 1..MaxTasks
NoFrames == [c \in Conns |-> << >>]
\* a Map without entries
EmptyMap == [k \in {} |-> k]
AnyMessage == CHOOSE m \in ChatMessages : TRUE
Idle == [pc |-> "idle", ws |-> "c1", room |-> NoRoom, message |-> AnyMessage,
         ret |-> "", roomId |-> 0, ins |-> "none", attIdx |-> 0]

\* ------------------------------------------------------------ external collaborators
\* crypt.verifySignature(message, canon.canonical_ChatMessage)
verifySignature(message) == message.signature = "valid"

\* dbUsers.isUserBlocked(publicKey)
isUserBlocked(publicKey) == publicKey \in blocked_keys

\* ------------------------------------------------------------ schema.sql
\* messages.room_id REFERENCES rooms(id)
FKRoomExists(roomTable, roomId) == \E r \in roomTable : r.id = roomId

\* the attachments table without its foreign key
FKMessageNotEnforced(messageTable, messageId) == TRUE

\* attachments.message_id REFERENCES messages(id)
FKMessageExists(messageTable, messageId) == \E m \in messageTable : m.id = messageId

\* ------------------------------------------------------------ the hub
\* WebRTCServer.getOrCreateRoom: the participants of the room, created empty
getOrCreateRoomInfo(name) ==
    IF name \in DOMAIN roomsMap THEN roomsMap[name] ELSE EmptyMap

\* Map.set(key, value)
MapSet(map, key, value) ==
    [k \in DOMAIN map \cup {key} |-> IF k = key THEN value ELSE map[k]]

\* Map.delete(key)
MapDelete(map, key) == [k \in DOMAIN map \ {key} |-> map[k]]

\* the values of a Map
MapValues(map) == { map[k] : k \in DOMAIN map }

\* WebRTCServer.onJoin: the frame is processed when it carries a public key and
\* its signature verifies
JoinAcceptedUnverified(publicKey, sigOk) == publicKey # NoKey

JoinAccepted(publicKey, sigOk) == publicKey # NoKey /\ sigOk

\* the participants onJoin lists in room-info: everyone including the joiner
AllParticipants(participants, publicKey) == MapValues(participants)

\* the participants onJoin lists in room-info: the registry without the joiner
OtherParticipants(participants, publicKey) ==
    { p \in MapValues(participants) : p.publicKey # publicKey }

\* WebRTCServer.onJoin
onJoin(ws, room, publicKey, signature) ==
    /\ ws \in wssClients /\ readyState[ws] = "OPEN"
    /\ ops < MaxOps /\ ops' = ops + 1
    /\ LET sigOk == verifySignature([signature |-> signature])
           accepted == JoinAccepted(publicKey, sigOk)
       IN
       /\ lastOp' = [op |-> "join", ws |-> ws, room |-> room, publicKey |-> publicKey,
                     signature |-> signature, ok |-> accepted]
       /\ IF ~accepted
          THEN /\ UNCHANGED <<clientsMap, roomsMap>>
               /\ out' = NoFrames
          ELSE LET user == User(ws, publicKey)
                   participants == MapSet(getOrCreateRoomInfo(room), publicKey, user)
                   others == OtherParticipants(participants, publicKey)
               IN  /\ clientsMap' = MapSet(clientsMap, ws, [room |-> room, user |-> user])
                   /\ roomsMap' = MapSet(roomsMap, room, participants)
                   /\ out' = [NoFrames EXCEPT ![ws] =
                                 <<[type |-> "room-info", participants |-> others, room |-> room]>>]
    /\ UNCHANGED <<wssClients, readyState, tasks, blockPending>>
    /\ UNCHANGED storeVars
    /\ UNCHANGED clientVars

\* the socket leaves the OPEN state (the peer closed it); its close event is pending
Disconnect(ws) ==
    /\ ws \in wssClients /\ readyState[ws] = "OPEN"
    /\ ops < MaxOps /\ ops' = ops + 1
    /\ readyState' = [readyState EXCEPT ![ws] = "CLOSING"]
    /\ out' = NoFrames
    /\ lastOp' = [op |-> "disconnect", ws |-> ws]
    /\ UNCHANGED <<wssClients, clientsMap, roomsMap, tasks, blockPending>>
    /\ UNCHANGED storeVars
    /\ UNCHANGED clientVars

\* WebRTCServer.onClose, run on the socket's close event
onClose(ws) ==
    /\ ws \in wssClients /\ readyState[ws] = "CLOSING"
    /\ wssClients' = wssClients \ {ws}
    /\ readyState' = [readyState EXCEPT ![ws] = "CLOSED"]
    /\ lastOp' = [op |-> "close", ws |-> ws]
    /\ IF ws \in DOMAIN clientsMap
       THEN LET room == clientsMap[ws].room
                user == clientsMap[ws].user
            IN  /\ clientsMap' = MapDelete(clientsMap, ws)
                /\ IF room \in DOMAIN roomsMap
                   THEN LET participants == MapDelete(roomsMap[room], user.publicKey)
                        IN  IF DOMAIN participants = {}
                            THEN /\ roomsMap' = MapDelete(roomsMap, room)
                                 /\ out' = NoFrames
                            ELSE /\ roomsMap' = MapSet(roomsMap, room, participants)
                                 /\ out' = [c \in Conns |->
                                       IF /\ c \in wssClients' /\ c \in DOMAIN clientsMap
                                          /\ readyState[c] = "OPEN"
                                          /\ clientsMap[c].room = room
                                       THEN <<[type |-> "user-left", user |-> user, room |-> room]>>
                                       ELSE << >>]
                   ELSE /\ UNCHANGED roomsMap
                        /\ out' = NoFrames
       ELSE /\ UNCHANGED <<clientsMap, roomsMap>>
            /\ out' = NoFrames
    /\ UNCHANGED <<tasks, blockPending, ops>>
    /\ UNCHANGED storeVars
    /\ UNCHANGED clientVars

\* The connections WebRTCServer.onSignaling sends the frame to.  The room test of
\* the code compares clientInfo.room with itself.
SignalingReceivers(ws, target) ==
    { cws \in wssClients :
        /\ readyState[cws] = "OPEN"
        /\ cws \in DOMAIN clientsMap
        /\ clientsMap[cws].room = clientsMap[cws].room
        /\ clientsMap[cws].user.publicKey = target }

\* WebRTCServer.onSignaling
onSignaling(ws, type, target, signature) ==
    /\ ws \in wssClients /\ readyState[ws] = "OPEN"
    /\ ops < MaxOps /\ ops' = ops + 1
    /\ lastOp' = [op |-> "signaling", ws |-> ws, type |-> type, target |-> target,
                  signature |-> signature]
    /\ IF target = NoTarget \/ ws \notin DOMAIN clientsMap
       THEN out' = NoFrames
       ELSE LET payload == [type |-> type, target |-> target, signature |-> signature,
                            sender |-> clientsMap[ws].user, room |-> clientsMap[ws].room]
            IN  out' = [c \in Conns |->
                          IF c \in SignalingReceivers(ws, target) THEN <<payload>> ELSE << >>]
    /\ UNCHANGED <<tasks, blockPending>>
    /\ UNCHANGED hubVars
    /\ UNCHANGED storeVars
    /\ UNCHANGED clientVars

\* ------------------------------------------------------------ the store
\* the row persistMessageToRoomId inserts for a message
MessageRow(roomId, message) ==
    [id |-> message.id, state |-> message.state, room_id |-> roomId,
     public_key |-> message.publicKey, signature |-> message.signature,
     content |-> message.content, timestamp |-> message.timestamp]

\* the INSERT without its ON CONFLICT clause and without the primary key
InsertMessageRowAlways(messageTable, row) == messageTable \cup {row}

\* INSERT INTO messages ... ON CONFLICT (id) DO NOTHING: the table after it
InsertMessageRow(messageTable, row) ==
    IF \E m \in messageTable : m.id = row.id THEN messageTable ELSE messageTable \cup {row}

\* result.rowCount of an INSERT
RowCount(before, after) == Cardinality(after) - Cardinality(before)

\* INSERT INTO attachments: the rows for attachments from..to of a message, ids from the SERIAL
AttachmentRows(message, from, to, firstId) ==
    { [id |-> firstId + (i - from), message_id |-> message.id, name |-> message.attachments[i]] :
        i \in from..to }

\* SELECT id FROM rooms WHERE name = $1
RoomIdOf(roomTable, name) == (CHOOSE r \in roomTable : r.name = name).id

RoomExists(roomTable, name) == \E r \in roomTable : r.name = name

\* DBRoom.getOrCreateRoom inside a transaction: the store after it
getOrCreateRoom(db, roomName) ==
    IF RoomExists(db.rooms, roomName) THEN db
    ELSE [db EXCEPT !.rooms = @ \cup {[id |-> db.nextRoomId, name |-> roomName]},
                    !.nextRoomId = @ + 1]

\* DBMessages.persistMessageToRoomId, awaited inside a transaction: the store after it
persistMessageToRoomId(db, roomId, message) ==
    LET msg == [message EXCEPT !.state = SAVED]
        n == Len(msg.attachments)
        after == InsertMessageRow(db.messages, MessageRow(roomId, msg))
    IN  IF RowCount(db.messages, after) = 0
        THEN [db EXCEPT !.messages = after]
        ELSE [db EXCEPT !.messages = after,
                        !.attachments = @ \cup AttachmentRows(msg, 1, n, db.nextAttId),
                        !.nextAttId = @ + n]

\* the loop of DBMessages.saveMessages over the batch, from message i on
RECURSIVE saveLoop(_, _, _, _)
saveLoop(db, roomId, batch, i) ==
    IF i > Len(batch) THEN db
    ELSE saveLoop(persistMessageToRoomId(db, roomId, batch[i]), roomId, batch, i + 1)

\* the value DBMessages.saveMessages returns: persistMessageToRoomId resolves to
\* true on every path, so every message of the batch is counted
numSaved(batch) == Len(batch)

\* DBMessages.saveMessages: the store after the transaction
saveMessages(db, roomName, batch) ==
    LET db1 == getOrCreateRoom(db, roomName)
    IN  saveLoop(db1, RoomIdOf(db1.rooms, roomName), batch, 1)

\* the messages of a room, and the attachments of a set of messages
MessagesOfRoom(messageTable, roomId) == { m \in messageTable : m.room_id = roomId }

AttachmentsOf(attachmentTable, messageIds) ==
    { a \in attachmentTable : a.message_id \in messageIds }

\* DBRoom.wipeRoom: the store after the transaction
wipeRoom(db, roomName) ==
    IF ~RoomExists(db.rooms, roomName) THEN db
    ELSE LET roomId == RoomIdOf(db.rooms, roomName)
             gone == MessagesOfRoom(db.messages, roomId)
         IN  [db EXCEPT !.attachments = @ \ AttachmentsOf(@, { m.id : m \in gone }),
                        !.messages = @ \ gone]

\* a deleteRoom that empties the room and leaves its rooms row
deleteRoomKeepsRow(db, roomName) == wipeRoom(db, roomName)

\* DBRoom.deleteRoom: the store after the transaction (the room exists)
deleteRoom(db, roomName) ==
    LET db1 == wipeRoom(db, roomName)
    IN  [db1 EXCEPT !.rooms = { r \in @ : r.name # roomName }]

\* the rows createTestData inserts: no public_key, no signature, no state column;
\* the timestamps go back from now over a week ("t1" of today, "t2" of the last day)
TestRow(roomId, id) ==
    [id |-> id, state |-> NULL, room_id |-> roomId, public_key |-> NULL,
     signature |-> NULL, content |-> "test",
     timestamp |-> IF id = "t1" THEN Now ELSE Now - 6]

RECURSIVE insertTestRows(_, _, _)
insertTestRows(messageTable, roomId, ids) ==
    IF ids = {} THEN messageTable
    ELSE LET id == CHOOSE x \in ids : TRUE
         IN  insertTestRows(InsertMessageRow(messageTable, TestRow(roomId, id)), roomId, ids \ {id})

\* DBRoom.createTestData: the store after the transaction
createTestData(db) ==
    LET db1 == getOrCreateRoom(wipeRoom(db, TestRoom), TestRoom)
    IN  [db1 EXCEPT !.messages = insertTestRows(@, RoomIdOf(db1.rooms, TestRoom), TestMsgIds)]

\* deleteMessage without its ownership test
MayDeleteAnyone(row, publicKey, adminPubKey) == TRUE

\* may publicKey delete the message row (DBMessages.deleteMessage's ownership test)
MayDelete(row, publicKey, adminPubKey) ==
    ~(row.public_key # publicKey /\ publicKey # adminPubKey)

\* the store as one record, and as the variables after a transaction
DB == [rooms |-> rooms, nextRoomId |-> nextRoomId, messages |-> messages,
       attachments |-> attachments, nextAttId |-> nextAttId]

Commit(db) ==
    /\ rooms' = db.rooms
    /\ nextRoomId' = db.nextRoomId
    /\ messages' = db.messages
    /\ attachments' = db.attachments
    /\ nextAttId' = db.nextAttId
    /\ everInserted' = everInserted \cup { m.id : m \in db.messages }

\* ------------------------------------------------------------ the broadcast pipeline
FreeTasks == { t \in TaskIds : tasks[t].pc = "idle" }

\* the pipeline's task is over when onBroadcast has returned and the insert it
\* started has settled
Settled(ins) == ins \in {"none", "inserted", "conflict", "failed"}

Retire(task) == IF task.pc = "done" /\ Settled(task.ins) THEN Idle ELSE task

\* WebRTCServer.onMessage for a broadcast frame: onBroadcast up to persist's
\* await of crypt.verifySignature
onBroadcast(ws, room, message) ==
    /\ ws \in wssClients /\ readyState[ws] = "OPEN"
    /\ ops < MaxOps /\ ops' = ops + 1
    /\ out' = NoFrames
    /\ lastOp' = [op |-> "broadcast", ws |-> ws, room |-> room, id |-> message.id]
    /\ IF room = NoRoom
       THEN UNCHANGED tasks
       ELSE /\ FreeTasks # {}
            /\ LET t == CHOOSE x \in FreeTasks : \A y \in FreeTasks : x <= y
               IN  tasks' = [tasks EXCEPT ![t] =
                      [pc |-> IF verifySignature(message) THEN "isBlocked" ELSE "fanout",
                       ws |-> ws, room |-> room, message |-> message,
                       ret |-> IF verifySignature(message) THEN "" ELSE "sigFail",
                       roomId |-> 0, ins |-> "none", attIdx |-> 0]]
    /\ UNCHANGED <<blockPending>>
    /\ UNCHANGED hubVars
    /\ UNCHANGED storeVars
    /\ UNCHANGED clientVars

\* WebRTCServer.persist: the answer of dbUsers.isUserBlocked
persistIsBlocked(t) ==
    /\ tasks[t].pc = "isBlocked"
    /\ tasks' = [tasks EXCEPT ![t] =
          IF isUserBlocked(tasks[t].message.publicKey)
          THEN [@ EXCEPT !.pc = "fanout", !.ret = "blocked"]
          ELSE [@ EXCEPT !.pc = "selMsg"]]
    /\ out' = NoFrames
    /\ lastOp' = [op |-> "isBlocked", task |-> tasks'[t]]
    /\ UNCHANGED <<blockPending, ops>>
    /\ UNCHANGED hubVars
    /\ UNCHANGED storeVars
    /\ UNCHANGED clientVars

\* DBMessages.persistMessageToRoomName: SELECT id FROM messages WHERE id = $1
persistSelectMessage(t) ==
    /\ tasks[t].pc = "selMsg"
    /\ tasks' = [tasks EXCEPT ![t] =
          IF \E m \in messages : m.id = tasks[t].message.id
          THEN [@ EXCEPT !.pc = "fanout", !.ret = "exists"]
          ELSE [@ EXCEPT !.pc = "selRoom"]]
    /\ out' = NoFrames
    /\ lastOp' = [op |-> "selectMessage", task |-> tasks'[t]]
    /\ UNCHANGED <<blockPending, ops>>
    /\ UNCHANGED hubVars
    /\ UNCHANGED storeVars
    /\ UNCHANGED clientVars

\* persistMessageToRoomName after getOrCreateRoom: persistMessageToRoomId is
\* called and not awaited.  It sets message.state before its first await; the
\* transaction's callback returns true.
Started(task, roomId) ==
    [task EXCEPT !.pc = "fanout", !.ret = "saved", !.roomId = roomId, !.ins = "msg",
                 !.message = [@ EXCEPT !.state = SAVED]]

\* DBRoom.getOrCreateRoom: SELECT id FROM rooms WHERE name = $1
persistSelectRoom(t) ==
    /\ tasks[t].pc = "selRoom"
    /\ tasks' = [tasks EXCEPT ![t] =
          IF RoomExists(rooms, tasks[t].room)
          THEN Started(@, RoomIdOf(rooms, tasks[t].room))
          ELSE [@ EXCEPT !.pc = "insRoom"]]
    /\ out' = NoFrames
    /\ lastOp' = [op |-> "selectRoom", task |-> tasks'[t]]
    /\ UNCHANGED <<blockPending, ops>>
    /\ UNCHANGED hubVars
    /\ UNCHANGED storeVars
    /\ UNCHANGED clientVars

\* DBRoom.getOrCreateRoom: INSERT INTO rooms (name).  rooms.name is UNIQUE: when
\* the name was inserted meanwhile the statement throws, the transaction fails
\* and onBroadcast ends with the rejection of persist
persistInsertRoom(t) ==
    /\ tasks[t].pc = "insRoom"
    /\ IF RoomExists(rooms, tasks[t].room)
       THEN /\ tasks' = [tasks EXCEPT ![t] = Idle]
            /\ lastOp' = [op |-> "rejected", task |-> tasks[t]]
            /\ UNCHANGED <<rooms, nextRoomId>>
       ELSE /\ rooms' = rooms \cup {[id |-> nextRoomId, name |-> tasks[t].room]}
            /\ nextRoomId' = nextRoomId + 1
            /\ tasks' = [tasks EXCEPT ![t] = Started(@, nextRoomId)]
            /\ lastOp' = [op |-> "insertRoom", task |-> tasks'[t]]
    /\ out' = NoFrames
    /\ UNCHANGED <<messages, attachments, nextAttId, blocked_keys, everInserted>>
    /\ UNCHANGED <<blockPending, ops>>
    /\ UNCHANGED hubVars
    /\ UNCHANGED clientVars

\* the frame onBroadcast sends to a socket: the ack to the sender's own socket,
\* the broadcast frame with the sender's user to the others
BroadcastFrames(task, cws) ==
    IF /\ cws \in wssClients /\ readyState[cws] = "OPEN"
       /\ cws \in DOMAIN clientsMap
       /\ clientsMap[cws].room = task.room
    THEN IF cws = task.ws
         THEN <<[type |-> "ack", id |-> task.message.id]>>
         ELSE <<[type |-> "broadcast", room |-> task.room, message |-> task.message,
                 sender |-> clientsMap[task.ws].user]>>
    ELSE << >>

\* WebRTCServer.onBroadcast after `await this.persist(msg)`
broadcastFanout(t) ==
    /\ tasks[t].pc = "fanout"
    /\ out' = IF tasks[t].ws \in DOMAIN clientsMap
              THEN [c \in Conns |-> BroadcastFrames(tasks[t], c)]
              ELSE NoFrames
    /\ lastOp' = [op |-> "fanout", task |-> tasks[t]]
    /\ tasks' = [tasks EXCEPT ![t] = Retire([@ EXCEPT !.pc = "done"])]
    /\ UNCHANGED <<blockPending, ops>>
    /\ UNCHANGED hubVars
    /\ UNCHANGED storeVars
    /\ UNCHANGED clientVars

\* persistMessageToRoomId, not awaited: INSERT INTO messages ... ON CONFLICT (id)
\* DO NOTHING.  rowCount 0 ends it; a room_id without a rooms row violates the
\* foreign key and the promise rejects with nobody to handle it
insertMessage(t) ==
    /\ tasks[t].ins = "msg"
    /\ LET task == tasks[t]
           after == InsertMessageRow(messages, MessageRow(task.roomId, task.message))
           result == IF RowCount(messages, after) = 0 THEN "conflict"
                     ELSE IF ~FKRoomExists(rooms, task.roomId) THEN "failed"
                     ELSE IF Len(task.message.attachments) > 0 THEN "att"
                     ELSE "inserted"
       IN  /\ messages' = IF result = "failed" THEN messages ELSE after
           /\ everInserted' = everInserted \cup { m.id : m \in messages' }
           /\ tasks' = [tasks EXCEPT ![t] = Retire([@ EXCEPT !.ins = result, !.attIdx = 1])]
           /\ lastOp' = [op |-> "insertMessage", task |-> task, result |-> result]
    /\ out' = NoFrames
    /\ UNCHANGED <<rooms, nextRoomId, attachments, nextAttId, blocked_keys>>
    /\ UNCHANGED <<blockPending, ops>>
    /\ UNCHANGED hubVars
    /\ UNCHANGED clientVars

\* persistMessageToRoomId, not awaited: INSERT INTO attachments for the next
\* attachment of the message.  A message_id without a messages row violates the
\* foreign key
insertAttachment(t) ==
    /\ tasks[t].ins = "att"
    /\ LET task == tasks[t]
           i == task.attIdx
           ok == FKMessageExists(messages, task.message.id)
           result == IF ~ok THEN "failed"
                     ELSE IF i < Len(task.message.attachments) THEN "att"
                     ELSE "inserted"
       IN  /\ attachments' = IF ok
                             THEN attachments \cup AttachmentRows(task.message, i, i, nextAttId)
                             ELSE attachments
           /\ nextAttId' = IF ok THEN nextAttId + 1 ELSE nextAttId
           /\ tasks' = [tasks EXCEPT ![t] = Retire([@ EXCEPT !.ins = result, !.attIdx = i + 1])]
           /\ lastOp' = [op |-> "insertAttachment", task |-> task, result |-> result]
    /\ out' = NoFrames
    /\ UNCHANGED <<rooms, nextRoomId, messages, blocked_keys, everInserted>>
    /\ UNCHANGED <<blockPending, ops>>
    /\ UNCHANGED hubVars
    /\ UNCHANGED clientVars

\* ------------------------------------------------------------ HTTP handlers
\* ChatService.sendMessages: POST /api/rooms/:roomId/send-messages with a batch
sendMessages(roomName, batch) ==
    /\ ops < MaxOps /\ ops' = ops + 1
    /\ Len(batch) > 0
    /\ Commit(saveMessages(DB, roomName, batch))
    /\ out' = NoFrames
    /\ lastOp' = [op |-> "sendMessages", room |-> roomName, batch |-> batch,
                  numSaved |-> numSaved(batch), allOk |-> (Len(batch) = numSaved(batch))]
    /\ UNCHANGED <<blocked_keys, tasks, blockPending>>
    /\ UNCHANGED hubVars
    /\ UNCHANGED clientVars

\* ChatService.createTestData: POST /api/admin/create-test-data
adminCreateTestData ==
    /\ ops < MaxOps /\ ops' = ops + 1
    /\ Commit(createTestData(DB))
    /\ out' = NoFrames
    /\ lastOp' = [op |-> "createTestData"]
    /\ UNCHANGED <<blocked_keys, tasks, blockPending>>
    /\ UNCHANGED hubVars
    /\ UNCHANGED clientVars

\* DBRoom.wipeRoom called for a room
wipeRoomCall(roomName) ==
    /\ ops < MaxOps /\ ops' = ops + 1
    /\ Commit(wipeRoom(DB, roomName))
    /\ out' = NoFrames
    /\ lastOp' = [op |-> "wipeRoom", room |-> roomName]
    /\ UNCHANGED <<blocked_keys, tasks, blockPending>>
    /\ UNCHANGED hubVars
    /\ UNCHANGED clientVars

\* the HTTP status of a delete handler whose store call answered success:
\* res.json(...) when it is true, res.status(404) when it is false
DeleteStatus(success) == IF success THEN 200 ELSE 404

\* ChatService.deleteRoom: POST /api/admin/delete-room; DBRoom.deleteRoom answers
\* false when the room does not exist and when a statement throws (the
\* transaction is rolled back)
adminDeleteRoom(roomName, storeFails) ==
    /\ ops < MaxOps /\ ops' = ops + 1
    /\ IF RoomExists(rooms, roomName) /\ ~storeFails
       THEN /\ Commit(deleteRoom(DB, roomName))
            /\ lastOp' = [op |-> "deleteRoom", room |-> roomName, ret |-> TRUE,
                          status |-> DeleteStatus(TRUE),
                          storeFails |-> storeFails, repeated |-> FALSE]
       ELSE /\ UNCHANGED <<rooms, nextRoomId, messages, attachments, nextAttId, everInserted>>
            /\ lastOp' = [op |-> "deleteRoom", room |-> roomName, ret |-> FALSE,
                          status |-> DeleteStatus(FALSE),
                          storeFails |-> storeFails,
                          repeated |-> (/\ lastOp.op = "deleteRoom" /\ lastOp.room = roomName
                                        /\ lastOp.ret)]
    /\ out' = NoFrames
    /\ UNCHANGED <<blocked_keys, tasks, blockPending>>
    /\ UNCHANGED hubVars
    /\ UNCHANGED clientVars

\* the sockets WebRTCServer.sendDeleteMessage sends the delete-msg frame to
DeleteMsgReceivers(roomName, publicKey) ==
    { cws \in wssClients :
        /\ cws \in DOMAIN clientsMap
        /\ clientsMap[cws].user.publicKey # publicKey
        /\ readyState[cws] = "OPEN"
        /\ clientsMap[cws].room = roomName }

\* DBMessages.deleteMessage: does the transaction delete the row
deleteMessageSucceeds(messageId, publicKey, adminPubKey) ==
    /\ \E m \in messages : m.id = messageId
    /\ \A m \in messages : m.id = messageId => MayDelete(m, publicKey, adminPubKey)

\* ChatService.deleteMessage: POST /api/delete-message signed by publicKey;
\* DBMessages.deleteMessage, then rtc.sendDeleteMessage.  A statement that throws
\* is caught: the transaction is rolled back and deleteMessage answers false
deleteMessage(messageId, roomName, publicKey, storeFails) ==
    /\ ops < MaxOps /\ ops' = ops + 1
    /\ IF deleteMessageSucceeds(messageId, publicKey, ADMIN_PUBLIC_KEY) /\ ~storeFails
       THEN /\ attachments' = attachments \ AttachmentsOf(attachments, {messageId})
            /\ messages' = { m \in messages : m.id # messageId }
            /\ lastOp' = [op |-> "deleteMessage", id |-> messageId, publicKey |-> publicKey,
                          ret |-> TRUE, status |-> DeleteStatus(TRUE),
                          storeFails |-> storeFails,
                          attachmentsDeleted |->
                              Cardinality(AttachmentsOf(attachments, {messageId}))]
       ELSE /\ UNCHANGED <<messages, attachments>>
            /\ lastOp' = [op |-> "deleteMessage", id |-> messageId, publicKey |-> publicKey,
                          ret |-> FALSE, status |-> DeleteStatus(FALSE),
                          storeFails |-> storeFails, attachmentsDeleted |-> 0]
    /\ out' = [c \in Conns |->
                 IF c \in DeleteMsgReceivers(roomName, publicKey)
                 THEN <<[type |-> "delete-msg", messageId |-> messageId, room |-> roomName]>>
                 ELSE << >>]
    /\ UNCHANGED <<rooms, nextRoomId, nextAttId, blocked_keys, everInserted>>
    /\ UNCHANGED <<tasks, blockPending>>
    /\ UNCHANGED hubVars
    /\ UNCHANGED clientVars

\* the :attachmentId path parameters of the attachment routes
AttachmentParams == {"x", "0", "1", "2"}

\* isNaN(parseInt(req.params.attachmentId))
isNaN(attachmentId) == attachmentId \notin {"0", "1", "2"}

\* parseInt(req.params.attachmentId) of a parameter that is a number
parseAttachmentId(attachmentId) ==
    CASE attachmentId = "0" -> 0 [] attachmentId = "1" -> 1 [] attachmentId = "2" -> 2

\* the status of a request whose handler returned without sending a response
NoResponse == 0

\* DBAttachments.deleteAttachmentById: false for an id <= 0, for an id without a
\* row and for a statement that throws (the error is caught)
deleteAttachmentById(atts, id, storeFails) ==
    /\ id > 0
    /\ ~storeFails
    /\ \E a \in atts : a.id = id

\* ChatService.deleteAttachment: POST /api/attachments/:attachmentId/delete.
\* 400 for a parameter that is not a number, 404 when deleteAttachmentById
\* answers false, and no res call at all when it answers true
deleteAttachment(attachmentId, storeFails) ==
    /\ ops < MaxOps /\ ops' = ops + 1
    /\ IF isNaN(attachmentId)
       THEN /\ UNCHANGED attachments
            /\ lastOp' = [op |-> "deleteAttachment", param |-> attachmentId, isNaN |-> TRUE,
                          existed |-> FALSE, storeFails |-> storeFails, ret |-> FALSE,
                          status |-> 400]
       ELSE LET id == parseAttachmentId(attachmentId)
                success == deleteAttachmentById(attachments, id, storeFails)
            IN  /\ attachments' = IF success THEN { a \in attachments : a.id # id }
                                  ELSE attachments
                /\ lastOp' = [op |-> "deleteAttachment", param |-> attachmentId,
                              isNaN |-> FALSE,
                              existed |-> (\E a \in attachments : a.id = id),
                              storeFails |-> storeFails, ret |-> success,
                              status |-> IF success THEN NoResponse ELSE 404]
    /\ out' = NoFrames
    /\ UNCHANGED <<rooms, nextRoomId, messages, nextAttId, blocked_keys, everInserted>>
    /\ UNCHANGED <<tasks, blockPending>>
    /\ UNCHANGED hubVars
    /\ UNCHANGED clientVars

\* dbUsers.deleteUserContent(publicKey): the key's messages and their attachments
deleteUserContent(db, publicKey) ==
    LET gone == { m \in db.messages : m.public_key = publicKey }
    IN  [db EXCEPT !.attachments = @ \ AttachmentsOf(@, { m.id : m \in gone }),
                   !.messages = @ \ gone]

\* ChatService.blockUser: POST /api/admin/block-user, up to the await of
\* dbUsers.deleteUserContent
blockUserBegin(publicKey, deleteFails) ==
    /\ ops < MaxOps /\ ops' = ops + 1
    /\ publicKey \notin blockPending
    /\ out' = NoFrames
    /\ lastOp' = [op |-> "deleteUserContent", publicKey |-> publicKey, failed |-> deleteFails]
    /\ IF deleteFails
       THEN \* the await rejects: the catch answers through handleError and
            \* dbUsers.blockUser is not reached
            /\ UNCHANGED storeVars
            /\ UNCHANGED blockPending
       ELSE /\ Commit(deleteUserContent(DB, publicKey))
            /\ blockPending' = blockPending \cup {publicKey}
            /\ UNCHANGED blocked_keys
    /\ UNCHANGED tasks
    /\ UNCHANGED hubVars
    /\ UNCHANGED clientVars

\* ChatService.blockUser: dbUsers.blockUser(publicKey) and the response
blockUserEnd(publicKey) ==
    /\ publicKey \in blockPending
    /\ blocked_keys' = blocked_keys \cup {publicKey}
    /\ blockPending' = blockPending \ {publicKey}
    /\ out' = NoFrames
    /\ lastOp' = [op |-> "blockUser", publicKey |-> publicKey]
    /\ UNCHANGED <<rooms, nextRoomId, messages, attachments, nextAttId, everInserted>>
    /\ UNCHANGED <<tasks, ops>>
    /\ UNCHANGED hubVars
    /\ UNCHANGED clientVars

\* ------------------------------------------------------------ reading the store
\* /^\d+$/.test(roomId): the room keys made of digits only
isNumeric(roomId) == roomId \in {"1", "2", "3"}

\* parseInt(roomId, 10) of such a key
parseInt(roomId) == CASE roomId = "1" -> 1 [] roomId = "2" -> 2 [] roomId = "3" -> 3

\* SELECT id FROM rooms WHERE id = $1, or WHERE name = $1: the rows found
RoomOfKey(roomTable, roomId) ==
    IF isNumeric(roomId) THEN { r \in roomTable : r.id = parseInt(roomId) }
    ELSE { r \in roomTable : r.name = roomId }

\* the WHERE clause of getMessagesByIds without its room_id test
SelectedByIdOnly(row, roomId, messageIds) == row.id \in messageIds

\* WHERE m.id IN (...) AND m.room_id = $1
SelectedByIds(row, roomId, messageIds) ==
    row.id \in messageIds /\ row.room_id = roomId

\* ORDER BY m.timestamp
RECURSIVE OrderByTimestamp(_)
OrderByTimestamp(rows) ==
    IF rows = {} THEN << >>
    ELSE LET first == CHOOSE x \in rows : \A y \in rows : x.timestamp <= y.timestamp
         IN  <<first>> \o OrderByTimestamp(rows \ {first})

\* the names of a message's attachment rows, ORDER BY a.id
RECURSIVE AttachmentNames(_)
AttachmentNames(attachmentRows) ==
    IF attachmentRows = {} THEN << >>
    ELSE LET first == CHOOSE x \in attachmentRows : \A y \in attachmentRows : x.id <= y.id
         IN  <<first.name>> \o AttachmentNames(attachmentRows \ {first})

\* the ChatMessageIntf getMessagesByIds builds from the joined rows of a message
RowToMessage(row, attachmentTable) ==
    [id |-> row.id, state |-> SAVED, timestamp |-> row.timestamp, content |-> row.content,
     publicKey |-> row.public_key, signature |-> row.signature,
     attachments |-> AttachmentNames(AttachmentsOf(attachmentTable, {row.id}))]

\* DBMessages.getMessagesByIds
getMessagesByIds(db, messageIds, roomId) ==
    IF messageIds = {} \/ RoomOfKey(db.rooms, roomId) = {} THEN << >>
    ELSE LET room == CHOOSE r \in RoomOfKey(db.rooms, roomId) : TRUE
             rows == OrderByTimestamp(
                        { m \in db.messages : SelectedByIds(m, room.id, messageIds) })
         IN  [i \in 1..Len(rows) |-> RowToMessage(rows[i], db.attachments)]

\* ChatService.getMessageIdsForRoom: the least number of days of history served
MinHistoryDays == 2

\* ChatService.getMessageIdsForRoom with DBMessages.getMessageIdsForRoomWithDateFilter.
\* daysOfHistory 0 stands for a parameter that is missing or does not parse:
\* historyDays is then Number.MAX_SAFE_INTEGER and the cutoff excludes nothing
getMessageIdsForRoom(db, roomId, daysOfHistory) ==
    LET historyDays == IF daysOfHistory < MinHistoryDays THEN MinHistoryDays ELSE daysOfHistory
        found == RoomOfKey(db.rooms, roomId)
    IN  IF found = {} THEN {}
        ELSE { m.id : m \in { x \in db.messages :
                   /\ x.room_id = (CHOOSE r \in found : TRUE).id
                   /\ (daysOfHistory = 0 \/ x.timestamp >= Now - historyDays) } }

\* ChatService.getMessagesByIds: POST /api/rooms/:roomId/get-messages-by-id
getMessagesByIdsCall(messageIds, roomId) ==
    /\ ops < MaxOps /\ ops' = ops + 1
    /\ lastOp' = [op |-> "getMessagesByIds", ids |-> messageIds, room |-> roomId,
                  messages |-> getMessagesByIds(DB, messageIds, roomId)]
    /\ out' = NoFrames
    /\ UNCHANGED <<tasks, blockPending>>
    /\ UNCHANGED hubVars
    /\ UNCHANGED storeVars
    /\ UNCHANGED clientVars

\* ChatService.getMessageIdsForRoom: GET /api/rooms/:roomId/message-ids.  A
\* daysOfHistory parameter that is absent parses to NaN, which is falsy as 0 is
getMessageIdsForRoomCall(roomId, given, daysOfHistory) ==
    /\ ops < MaxOps /\ ops' = ops + 1
    /\ lastOp' = [op |-> "getMessageIds", room |-> roomId, given |-> given,
                  days |-> daysOfHistory,
                  ids |-> getMessageIdsForRoom(DB, roomId, IF given THEN daysOfHistory ELSE 0)]
    /\ out' = NoFrames
    /\ UNCHANGED <<tasks, blockPending>>
    /\ UNCHANGED hubVars
    /\ UNCHANGED storeVars
    /\ UNCHANGED clientVars

\* ------------------------------------------------------------ the client's sync
\* gs().chatDaysOfHistory || 30
DefaultDaysOfHistory == 30
\* AppRooms.cleanRoomMessages: the least retention
MinRetentionDays == 2

\* the room the client opens
ClientRoom == "r1"

\* no loadRoomMessages invocation has run
NoSync == [pc |-> "idle", days |-> 0, before |-> << >>, messages |-> << >>,
           serverIds |-> {}, obtained |-> FALSE, dirty |-> FALSE, missingIds |-> {},
           saveToServer |-> FALSE, resent |-> FALSE]

\* no IndexedDB entry for the room
NoCache == [has |-> FALSE, messages |-> << >>]

\* AppRooms.cleanRoomMessages: the retention in days
RetentionDays(chatDaysOfHistory) ==
    LET days == IF chatDaysOfHistory = 0 THEN DefaultDaysOfHistory ELSE chatDaysOfHistory
    IN  IF days < MinRetentionDays THEN MinRetentionDays ELSE days

\* a keepMsg that keeps the message whose age is exactly the retention
InRetentionInclusive(msg, chatDaysOfHistory) ==
    (Now - msg.timestamp) <= RetentionDays(chatDaysOfHistory)

\* AppRooms.cleanRoomMessages: keepMsg
InRetention(msg, chatDaysOfHistory) ==
    (Now - msg.timestamp) < RetentionDays(chatDaysOfHistory)

\* AppRooms.cleanRoomMessages: roomData.messages after it
cleanRoomMessages(msgs, chatDaysOfHistory) ==
    SelectSeq(msgs, LAMBDA m : InRetention(m, chatDaysOfHistory))

\* AppRooms.cleanRoomMessages: hadOldMessages, the value it returns
hadOldMessages(msgs, chatDaysOfHistory) ==
    \E i \in 1..Len(msgs) : (Now - msgs[i].timestamp) >= RetentionDays(chatDaysOfHistory)

\* AppRooms.runRoomCleanup for the room's entry: cleanRoomMessages, and the
\* entry is written back when it returned true
runRoomCleanup(chatDaysOfHistory) ==
    /\ sync.pc \in {"idle", "done"}
    /\ idb.has
    /\ ops < MaxOps /\ ops' = ops + 1
    /\ LET cleanedSome == hadOldMessages(idb.messages, chatDaysOfHistory)
           cleaned == IF cleanedSome
                      THEN cleanRoomMessages(idb.messages, chatDaysOfHistory)
                      ELSE idb.messages
       IN  /\ idb' = IF cleanedSome THEN [idb EXCEPT !.messages = cleaned] ELSE idb
           /\ lastOp' = [op |-> "runRoomCleanup", days |-> chatDaysOfHistory,
                         before |-> idb.messages, cleanedSome |-> cleanedSome]
    /\ out' = NoFrames
    /\ UNCHANGED sync
    /\ UNCHANGED <<tasks, blockPending>>
    /\ UNCHANGED hubVars
    /\ UNCHANGED storeVars
    /\ UNCHANGED rtc

\* a sync filter that keeps only what the server lists
SyncKeepsOnlyServer(msg, serverIds) == msg.id \in serverIds

\* loadRoomMessages' filter: a message stays unless it is SAVED and not on the server
SyncKeeps(msg, serverIds) == msg.id \in serverIds \/ msg.state # SAVED

\* the filter without the promotion to SAVED
MarkSavedNever(msgs, serverIds) == msgs

\* loadRoomMessages' filter: the messages the server lists become SAVED
MarkSaved(msgs, serverIds) ==
    [i \in 1..Len(msgs) |->
        IF msgs[i].id \in serverIds THEN [msgs[i] EXCEPT !.state = SAVED] ELSE msgs[i]]

SyncFilter(msgs, serverIds) ==
    SelectSeq(MarkSaved(msgs, serverIds), LAMBDA m : SyncKeeps(m, serverIds))

\* messages.sort((a, b) => a.timestamp - b.timestamp): stable
RECURSIVE SortByTimestamp(_)
SortByTimestamp(msgs) ==
    IF Len(msgs) <= 1 THEN msgs
    ELSE LET last == msgs[Len(msgs)]
             front == SortByTimestamp(SubSeq(msgs, 1, Len(msgs) - 1))
             le == SelectSeq(front, LAMBDA m : m.timestamp <= last.timestamp)
             gt == SelectSeq(front, LAMBDA m : m.timestamp > last.timestamp)
         IN  le \o <<last>> \o gt

SeqIds(msgs) == { msgs[i].id : i \in 1..Len(msgs) }

\* AppMessages.loadRoomMessages up to its request for the server's ids: the
\* IndexedDB entry is read, cleaned, and written back when something was cleaned
loadRoomMessages(roomId, chatSaveToServer, chatDaysOfHistory) ==
    /\ sync.pc \in {"idle", "done"}
    /\ ops < MaxOps /\ ops' = ops + 1
    /\ LET cached == IF idb.has THEN idb.messages ELSE << >>
           cleaned == cleanRoomMessages(cached, chatDaysOfHistory)
       IN  /\ idb' = IF idb.has THEN [idb EXCEPT !.messages = cleaned] ELSE idb
           /\ sync' = [NoSync EXCEPT !.pc = IF chatSaveToServer THEN "getIds" ELSE "done",
                                     !.days = chatDaysOfHistory,
                                     !.saveToServer = chatSaveToServer,
                                     !.before = cached,
                                     !.messages = cleaned]
    /\ lastOp' = [op |-> "loadRoomMessages", room |-> roomId]
    /\ out' = NoFrames
    /\ UNCHANGED <<tasks, blockPending>>
    /\ UNCHANGED hubVars
    /\ UNCHANGED storeVars
    /\ UNCHANGED rtc

\* loadRoomMessages from the answer of GET /api/rooms/:roomId/message-ids to the
\* request for the missing messages (or to its end)
syncGetIds(roomId, fails) ==
    /\ sync.pc = "getIds"
    /\ IF fails
       THEN /\ sync' = [sync EXCEPT !.pc = "done"]
            /\ UNCHANGED idb
       ELSE LET clientDays == IF sync.days = 0 THEN DefaultDaysOfHistory ELSE sync.days
                serverMessageIds == getMessageIdsForRoom(DB, roomId, clientDays)
                filtered == SyncFilter(sync.messages, serverMessageIds)
                messagesDirty == filtered # sync.messages
                missingIds == serverMessageIds \ SeqIds(filtered)
            IN  IF serverMessageIds = {}
                THEN /\ sync' = [sync EXCEPT !.pc = "done", !.obtained = TRUE]
                     /\ UNCHANGED idb
                ELSE IF missingIds = {}
                THEN /\ sync' = [sync EXCEPT !.pc = "done", !.obtained = TRUE,
                                             !.serverIds = serverMessageIds,
                                             !.messages = filtered, !.dirty = messagesDirty]
                     /\ idb' = IF messagesDirty THEN [has |-> TRUE, messages |-> filtered]
                               ELSE idb
                ELSE /\ sync' = [sync EXCEPT !.pc = "fetch", !.obtained = TRUE,
                                             !.serverIds = serverMessageIds,
                                             !.messages = filtered, !.dirty = messagesDirty,
                                             !.missingIds = missingIds]
                     /\ UNCHANGED idb
    /\ lastOp' = [op |-> "syncGetIds", room |-> roomId, fails |-> fails]
    /\ out' = NoFrames
    /\ UNCHANGED <<tasks, blockPending, ops>>
    /\ UNCHANGED hubVars
    /\ UNCHANGED storeVars
    /\ UNCHANGED rtc

\* loadRoomMessages from the answer of POST get-messages-by-id to its end
syncFetch(roomId, fails) ==
    /\ sync.pc = "fetch"
    /\ IF fails
       THEN /\ sync' = [sync EXCEPT !.pc = "done"]
            /\ UNCHANGED idb
       ELSE LET respMessages == getMessagesByIds(DB, sync.missingIds, roomId)
                merged == IF Len(respMessages) > 0
                          THEN SortByTimestamp(sync.messages \o respMessages)
                          ELSE sync.messages
                messagesDirty == sync.dirty \/ Len(respMessages) > 0
            IN  /\ sync' = [sync EXCEPT !.pc = "done", !.messages = merged,
                                        !.dirty = messagesDirty]
                /\ idb' = IF messagesDirty THEN [has |-> TRUE, messages |-> merged] ELSE idb
    /\ lastOp' = [op |-> "syncFetch", room |-> roomId, fails |-> fails,
                  fetched |-> IF fails THEN << >>
                              ELSE getMessagesByIds(DB, sync.missingIds, roomId)]
    /\ out' = NoFrames
    /\ UNCHANGED <<tasks, blockPending, ops>>
    /\ UNCHANGED hubVars
    /\ UNCHANGED storeVars
    /\ UNCHANGED rtc

\* resendFailedMessages: the message is the user's own and not yet SAVED
NeedsResend(message, publicKey) ==
    message.publicKey = publicKey /\ message.state # SAVED

\* resendFailedMessages after allOk: messages.find(m => m.id === sent.id) is the
\* first entry with the id, and it becomes SAVED
MarkResent(msgs, messagesToSend) ==
    [i \in 1..Len(msgs) |->
        IF /\ msgs[i].id \in SeqIds(messagesToSend)
           /\ \A j \in 1..(i - 1) : msgs[j].id # msgs[i].id
        THEN [msgs[i] EXCEPT !.state = SAVED] ELSE msgs[i]]

\* the outcomes of the POST to send-messages as the client sees them
Responses == {"allOk", "notOk", "fails"}

\* AppMessages.resendFailedMessages, called by AppRooms.connect with the list
\* loadRoomMessages returned; publicKey is gs().keyPair.publicKey
resendFailedMessages(roomName, publicKey, response) ==
    /\ sync.pc = "done" /\ ~sync.resent
    /\ LET messagesToSend ==
               IF sync.saveToServer
               THEN SelectSeq(sync.messages, LAMBDA m : NeedsResend(m, publicKey))
               ELSE << >>
           acknowledged == Len(messagesToSend) > 0 /\ response = "allOk"
           marked == MarkResent(sync.messages, messagesToSend)
       IN  /\ sync' = [sync EXCEPT !.resent = TRUE,
                                   !.messages = IF acknowledged THEN marked ELSE @]
           /\ idb' = IF acknowledged THEN [has |-> TRUE, messages |-> marked] ELSE idb
           /\ lastOp' = [op |-> "resendFailedMessages", room |-> roomName,
                         publicKey |-> publicKey, response |-> response,
                         posted |-> messagesToSend]
    /\ out' = NoFrames
    /\ UNCHANGED <<tasks, blockPending, ops>>
    /\ UNCHANGED hubVars
    /\ UNCHANGED storeVars
    /\ UNCHANGED rtc

\* the sender name of a message: every key signs under one name
sender(message) == message.publicKey

\* AppMessages.messageExists: some listed message has the timestamp, sender,
\* content and state of msg
messageExists(chatMessages, msg) ==
    \E i \in 1..Len(chatMessages) :
        /\ chatMessages[i].timestamp = msg.timestamp
        /\ sender(chatMessages[i]) = sender(msg)
        /\ chatMessages[i].content = msg.content
        /\ chatMessages[i].state = msg.state

\* AppMessages.persistInboundMessage for a broadcast received in the open room,
\* with storage not running low (pruneDB removes nothing): gs().chatMessages is
\* the list connect dispatched, and saveMessages writes it to the cache
persistInboundMessage(msg) ==
    /\ sync.pc = "done" /\ sync.resent
    /\ ops < MaxOps /\ ops' = ops + 1
    /\ LET exists == messageExists(sync.messages, msg)
           chatMessages == IF exists THEN sync.messages ELSE Append(sync.messages, msg)
       IN  /\ sync' = [sync EXCEPT !.messages = chatMessages]
           /\ idb' = IF exists THEN idb ELSE [has |-> TRUE, messages |-> chatMessages]
           /\ lastOp' = [op |-> "persistInboundMessage", msg |-> msg,
                         before |-> sync.messages, appended |-> ~exists]
    /\ out' = NoFrames
    /\ UNCHANGED <<tasks, blockPending>>
    /\ UNCHANGED hubVars
    /\ UNCHANGED storeVars
    /\ UNCHANGED rtc

\* ------------------------------------------------------------ the WebRTC client
\* the sockets one WebRTC instance may create (calls of _connect)
MaxSockets == 2

\* a WebRTC instance after construction: no socket (0), nothing connected
NoClient == [socket |-> 0, sockets |-> 0, open |-> FALSE, closing |-> {},
             connected |-> FALSE, participants |-> {}, peerConnections |-> EmptyMap,
             inbox |-> {}, recoveryDue |-> FALSE]

NoRtc == [k \in Keys |-> NoClient]

\* a frame the signaling server delivers to a client
Frame(type, from, participants) ==
    [type |-> type, from |-> from, participants |-> participants]

\* the server relays a frame to its target while the target's socket is joined
Deliver(r, target, frame) ==
    IF r[target].open THEN [r EXCEPT ![target].inbox = @ \cup {frame}] ELSE r

\* a. localeCompare(b) of two keys: their order as strings
localeCompare(a, b) ==
    LET rank(k) == IF k = "kA" THEN 1 ELSE 2
    IN  IF rank(a) < rank(b) THEN -1 ELSE IF rank(a) = rank(b) THEN 0 ELSE 1

\* a tie-break under which no peer ever keeps its offer
localKeyIsLowerNever(local, remote) == FALSE

\* WebRTC._onOffer: localKeyIsLower
localKeyIsLower(local, remote) == localeCompare(local, remote) < 0

\* WebRTC.createPeerConnection(user, true) for every key of users, in the client
\* local of r: the connection is registered, the offer becomes the local
\* description and is sent when there is a socket
createInitiators(r, local, users) ==
    LET withPcs == [r EXCEPT ![local].peerConnections =
                       [k \in DOMAIN @ \cup users |->
                           IF k \in users
                           THEN [signalingState |-> "have-local-offer", isInitiator |-> TRUE]
                           ELSE @[k]]]
    IN  [k \in Keys |->
            IF k \in users /\ k # local /\ r[local].socket # 0 /\ r[k].open
            THEN [withPcs[k] EXCEPT !.inbox = @ \cup {Frame("offer", local, {})}]
            ELSE withPcs[k]]

\* WebRTC.closeAllConnections
closeAllConnections(client) == [client EXCEPT !.peerConnections = EmptyMap]

\* WebRTC._disconnect: the socket is closed (its close event follows later) and
\* forgotten, the connections are closed, the participants are cleared
disconnect(client) ==
    [closeAllConnections(client) EXCEPT
        !.closing = IF client.socket # 0 THEN @ \cup {client.socket} ELSE @,
        !.socket = 0, !.open = FALSE, !.inbox = {},
        !.participants = {}, !.connected = FALSE]

\* WebRTC.initSocket: a new WebSocket, unless one is still held
initSocket(client) ==
    IF client.socket # 0 THEN client
    ELSE [client EXCEPT !.socket = client.sockets + 1, !.sockets = @ + 1]

\* the steps of the WebRTC clients leave the server and the cache alone
RtcFrame ==
    /\ out' = NoFrames
    /\ UNCHANGED <<tasks, blockPending, ops, idb, sync>>
    /\ UNCHANGED hubVars
    /\ UNCHANGED storeVars

\* WebRTC._connect: _disconnect, then initSocket
connect(k) ==
    /\ rtc[k].sockets < MaxSockets
    /\ rtc' = [rtc EXCEPT ![k] = initSocket(disconnect(rtc[k]))]
    /\ lastOp' = [op |-> "_connect", key |-> k]
    /\ RtcFrame

\* WebRTC._onopen of the client's socket: connected, and the join is sent; the
\* server answers with room-info listing the other joined clients
onopen(k) ==
    /\ rtc[k].socket # 0 /\ ~rtc[k].open
    /\ LET others == { p \in Keys \ {k} : rtc[p].open }
       IN  rtc' = [rtc EXCEPT ![k].open = TRUE, ![k].connected = TRUE,
                              ![k].inbox = @ \cup {Frame("room-info", k, others)}]
    /\ lastOp' = [op |-> "_onopen", key |-> k]
    /\ RtcFrame

\* WebRTC._onclose run by the close event of socket gen, which _disconnect closed
\* earlier: the handler is the instance's, whatever socket fired the event
onclose(k, gen) ==
    /\ gen \in rtc[k].closing
    /\ rtc' = [rtc EXCEPT ![k] = [closeAllConnections(@) EXCEPT
                                     !.connected = FALSE, !.closing = @ \ {gen}]]
    /\ lastOp' = [op |-> "_onclose", key |-> k, gen |-> gen]
    /\ RtcFrame

\* WebRTC._onRoomInfo: the participants are replaced, an initiator connection is
\* created to each one without a connection, the recovery check is scheduled
onRoomInfo(k) ==
    \E evt \in rtc[k].inbox :
        /\ evt.type = "room-info"
        /\ LET taken == [rtc EXCEPT ![k].inbox = @ \ {evt},
                                    ![k].participants = evt.participants,
                                    ![k].recoveryDue = TRUE]
               fresh == evt.participants \ DOMAIN rtc[k].peerConnections
           IN  rtc' = createInitiators(taken, k, fresh)
        /\ lastOp' = [op |-> "_onRoomInfo", key |-> k]
        /\ RtcFrame

\* WebRTC.attemptConnectionRecovery, five seconds after room-info, while no
\* connection has reached 'connected': each participant's connection is closed
\* and created again as initiator
attemptConnectionRecovery(k) ==
    /\ rtc[k].recoveryDue
    /\ LET stalled == rtc[k].participants \cap DOMAIN rtc[k].peerConnections
           taken == [rtc EXCEPT ![k].recoveryDue = FALSE]
       IN  rtc' = createInitiators(taken, k, stalled)
    /\ lastOp' = [op |-> "attemptConnectionRecovery", key |-> k]
    /\ RtcFrame

\* WebRTC._onOffer for an offer of a peer delivered to k
onOffer(k, peer) ==
    \E evt \in rtc[k].inbox :
        /\ evt.type = "offer" /\ evt.from = peer
        /\ LET pcs == rtc[k].peerConnections
               glare == peer \in DOMAIN pcs /\ pcs[peer].signalingState = "have-local-offer"
               ignored == glare /\ localKeyIsLower(k, peer)
               taken == [rtc EXCEPT ![k].inbox = @ \ {evt}]
               isInitiator == IF peer \in DOMAIN pcs /\ ~glare THEN pcs[peer].isInitiator
                              ELSE FALSE
               answered == [taken EXCEPT ![k].peerConnections =
                               MapSet(pcs, peer, [signalingState |-> "stable",
                                                    isInitiator |-> isInitiator])]
           IN  /\ rtc' = IF ignored THEN taken
                         ELSE IF rtc[k].socket # 0
                         THEN Deliver(answered, peer, Frame("answer", k, {}))
                         ELSE answered
               /\ lastOp' = [op |-> "_onOffer", key |-> k, sender |-> peer,
                             glare |-> glare, ignored |-> ignored,
                             rolledBack |-> (glare /\ ~ignored)]
        /\ RtcFrame

\* WebRTC._onAnswer for an answer of a peer delivered to k
onAnswer(k, peer) ==
    \E evt \in rtc[k].inbox :
        /\ evt.type = "answer" /\ evt.from = peer
        /\ LET pcs == rtc[k].peerConnections
               taken == [rtc EXCEPT ![k].inbox = @ \ {evt}]
           IN  rtc' = IF peer \in DOMAIN pcs /\ pcs[peer].signalingState = "have-local-offer"
                      THEN [taken EXCEPT ![k].peerConnections[peer].signalingState = "stable"]
                      ELSE taken
        /\ lastOp' = [op |-> "_onAnswer", key |-> k, sender |-> peer]
        /\ RtcFrame

\* ------------------------------------------------------------ specifications
\* the server after init: the sockets are connected, nobody has joined, the
\* schema is created and empty
InitServer ==
    /\ wssClients = Conns
    /\ readyState = [c \in Conns |-> "OPEN"]
    /\ clientsMap = EmptyMap
    /\ roomsMap = EmptyMap
    /\ rooms = {}
    /\ nextRoomId = 1
    /\ messages = {}
    /\ attachments = {}
    /\ nextAttId = 1
    /\ blocked_keys = {}
    /\ tasks = [t \in TaskIds |-> Idle]
    /\ blockPending = {}
    /\ everInserted = {}
    /\ out = NoFrames
    /\ lastOp = [op |-> "init"]
    /\ ops = 0

\* the server after init and a client that has no cache
Init == InitServer /\ idb = NoCache /\ sync = NoSync /\ rtc = NoRtc

\* the steps of the pipelines in flight
PipelineStep ==
    \E t \in TaskIds :
        \/ persistIsBlocked(t)
        \/ persistSelectMessage(t)
        \/ persistSelectRoom(t)
        \/ persistInsertRoom(t)
        \/ broadcastFanout(t)
        \/ insertMessage(t)
        \/ insertAttachment(t)

\* the identity each connection's client joins with
KeyOf(c) == IF c = "c1" THEN "kA" ELSE "kB"

\* the connections that act under Spec
Senders == {"c1", "c2"}

\* The hub with the broadcast pipeline and the block list
Next ==
    \/ \E c \in Senders, r \in RoomNames : onJoin(c, r, KeyOf(c), "valid")
    \/ \E c \in Senders : Disconnect(c)
    \/ \E c \in Senders : onClose(c)
    \/ \E c \in Senders, r \in RoomNames, m \in ChatMessages : onBroadcast(c, r, m)
    \/ PipelineStep
    \/ \E k \in Keys : blockUserBegin(k, FALSE)
    \/ \E k \in Keys : blockUserEnd(k)

Spec == Init /\ [][Next]_vars

\* the bodies of send-messages requests: one message, or two with the same id
Batches ==
    { <<m>> : m \in ChatMessages } \cup
    { <<a, b>> : a \in { m \in ChatMessages : m.id = "m1" /\ m.publicKey = "kA" },
                 b \in { m \in ChatMessages : m.id = "m1" /\ m.publicKey = "kB" } }

\* The store under every operation that writes it
NextStore ==
    \/ \E r \in RoomNames : onJoin("c1", r, "kA", "valid")
    \/ \E r \in RoomNames \cup {NoRoom}, m \in ChatMessages : onBroadcast("c1", r, m)
    \/ PipelineStep
    \/ \E r \in RoomNames, b \in Batches : sendMessages(r, b)
    \/ adminCreateTestData
    \/ \E r \in RoomNames : wipeRoomCall(r)
    \/ \E r \in RoomNames, f \in BOOLEAN : adminDeleteRoom(r, f)
    \/ \E id \in MsgIds \cup {"t1"}, k \in Keys \cup {ADMIN_PUBLIC_KEY}, f \in BOOLEAN :
          deleteMessage(id, "r1", k, f)
    \/ \E id \in AttachmentParams, f \in BOOLEAN : deleteAttachment(id, f)
    \/ \E k \in Keys, f \in BOOLEAN : blockUserBegin(k, f)
    \/ \E k \in Keys : blockUserEnd(k)

SpecStore == Init /\ [][NextStore]_vars

\* Signaling between joined connections
NextSignal ==
    \/ \E c \in Conns, r \in RoomNames, k \in Keys \cup {NoKey}, sig \in Signatures :
          onJoin(c, r, k, sig)
    \/ \E c \in Conns : Disconnect(c)
    \/ \E c \in Conns : onClose(c)
    \/ \E c \in Conns, ty \in SignalTypes, k \in Keys \cup {NoTarget}, sig \in Signatures :
          onSignaling(c, ty, k, sig)

SpecSignal == Init /\ [][NextSignal]_vars

\* a room whose name is made of digits
NumericRoom == "2"

\* the messages a client's cache can hold when it opens the room: acknowledged
\* or not, inside the retention or older
CachedMessages ==
    { [m EXCEPT !.state = st, !.timestamp = ts] :
        m \in { x \in ChatMessages :
                    (x.id = "m1" /\ x.publicKey = "kA") \/ (x.id = "m2" /\ x.publicKey = "kB") },
        st \in {SAVED, SENT}, ts \in {Now - 1, Now - 2, Now - 35} }

Caches ==
    {NoCache} \cup {[has |-> TRUE, messages |-> << >>]} \cup
    { [has |-> TRUE, messages |-> <<m>>] : m \in CachedMessages } \cup
    { [has |-> TRUE, messages |-> <<a, b>>] :
        a \in { m \in CachedMessages : m.id = "m1" },
        b \in { m \in CachedMessages : m.id = "m2" } }

InitSync == InitServer /\ idb \in Caches /\ sync = NoSync /\ rtc = NoRtc

\* the keys and id lists of get-messages-by-id requests
RoomKeys == {"r1", NumericRoom, "1", "nowhere"}
IdLists == { {}, {"m1"}, {"m1", "m2"} }

\* the daysOfHistory parameters of message-ids requests: absent, or a number
HistoryQueries ==
    {[given |-> FALSE, days |-> 0]} \cup
    { [given |-> TRUE, days |-> n] : n \in -1..(MinHistoryDays + 1) }

\* A client opening its room while the store is written and read
NextSync ==
    \/ \E r \in {ClientRoom, NumericRoom}, m \in ChatMessages : sendMessages(r, <<m>>)
    \/ \E id \in MsgIds : deleteMessage(id, ClientRoom, ADMIN_PUBLIC_KEY, FALSE)
    \/ \E ids \in IdLists, key \in RoomKeys : getMessagesByIdsCall(ids, key)
    \/ \E q \in HistoryQueries : getMessageIdsForRoomCall(ClientRoom, q.given, q.days)
    \/ \E s \in BOOLEAN, d \in {0, MinRetentionDays + 1} : loadRoomMessages(ClientRoom, s, d)
    \/ \E f \in BOOLEAN : syncGetIds(ClientRoom, f)
    \/ \E f \in BOOLEAN : syncFetch(ClientRoom, f)

SpecSync == InitSync /\ [][NextSync]_vars

\* the hub after c1 (key kA) and c2 (key kB) have joined room r1: the state two
\* onJoin calls leave, with the store still empty
InitRelay ==
    /\ wssClients = Conns
    /\ readyState = [c \in Conns |-> "OPEN"]
    /\ clientsMap = [c \in Senders |-> [room |-> ClientRoom, user |-> User(c, KeyOf(c))]]
    /\ roomsMap = [r \in {ClientRoom} |->
                      [k \in { KeyOf(c) : c \in Senders } |->
                          User(CHOOSE c \in Senders : KeyOf(c) = k, k)]]
    /\ rooms = {}
    /\ nextRoomId = 1
    /\ messages = {}
    /\ attachments = {}
    /\ nextAttId = 1
    /\ blocked_keys = {}
    /\ tasks = [t \in TaskIds |-> Idle]
    /\ blockPending = {}
    /\ everInserted = {}
    /\ out = NoFrames
    /\ lastOp = [op |-> "init"]
    /\ ops = 0
    /\ idb = NoCache /\ sync = NoSync /\ rtc = NoRtc

\* Broadcasts of c1 to a room with another member, with validly signed messages
NextRelay ==
    \/ \E m \in { x \in ChatMessages : verifySignature(x) } : onBroadcast("c1", ClientRoom, m)
    \/ PipelineStep

SpecRelay == InitRelay /\ [][NextRelay]_vars

\* the values of gs().chatDaysOfHistory: unset (0), negative, below, at and above
\* the least retention
DaysSettings == {-1, 0, 1, MinRetentionDays, MinRetentionDays + 1}

\* the messages a broadcast can deliver to the client
InboundMessages ==
    { [m EXCEPT !.state = st, !.timestamp = ts, !.content = c] :
        m \in ChatMessages, st \in {SAVED, SENT}, ts \in {Now - 1, Now - 2}, c \in {"x", "y"} }

\* The WebRTC clients of two users connecting to one room
NextRtc ==
    \/ \E k \in Keys : connect(k)
    \/ \E k \in Keys : onopen(k)
    \/ \E k \in Keys, g \in 1..MaxSockets : onclose(k, g)
    \/ \E k \in Keys : onRoomInfo(k)
    \/ \E k \in Keys : attemptConnectionRecovery(k)
    \/ \E k, p \in Keys : onOffer(k, p)
    \/ \E k, p \in Keys : onAnswer(k, p)

SpecRtc == Init /\ [][NextRtc]_vars

\* The client's housekeeping of its cache
NextClient ==
    \/ \E d \in DaysSettings : runRoomCleanup(d)
    \/ \E s \in BOOLEAN, d \in {0, MinRetentionDays + 1} : loadRoomMessages(ClientRoom, s, d)
    \/ \E f \in BOOLEAN : syncGetIds(ClientRoom, f)
    \/ \E k \in Keys, r \in Responses : resendFailedMessages(ClientRoom, k, r)
    \/ \E m \in InboundMessages : persistInboundMessage(m)

SpecClient == InitSync /\ [][NextClient]_vars

\* ------------------------------------------------------------ claims
\* the frames of a type the last step sent to a socket
Sent(c, type) == { i \in 1..Len(out[c]) : out[c][i].type = type }

\* the last step was the fan-out of a broadcast (onBroadcast after persist)
IsFanout == lastOp.op = "fanout"

\* the last step settled the insert of a broadcast's message row
IsInsert == lastOp.op = "insertMessage"

\* C1: in the broadcast pipeline a message that fails signature verification,
\* or whose publicKey persist found in the block list, is dropped: the fan-out
\* sends no broadcast frame to any connection and no ack to the originator.
C1_DroppedFrameSendsNothing ==
    (IsFanout /\ lastOp.task.ret \in {"sigFail", "blocked"}) => out = NoFrames

\* C2: an ack confirms persistence: whenever the server sends ack{id}, a
\* messages row with that id has been inserted before.
C2_AckAfterInsert ==
    \A c \in Conns : \A i \in Sent(c, "ack") : out[c][i].id \in everInserted

\* C3: block suppression: the broadcast pipeline never inserts a message row
\* whose public_key is in the block list at the time the row is inserted.
C3_NoInsertWhileBlocked ==
    (IsInsert /\ lastOp.result \in {"att", "inserted"})
        => lastOp.task.message.publicKey \notin blocked_keys

\* C4: signature gating: every message row in the store, whichever operation
\* inserted it, carries a signature that verified when it was persisted.
C4_EveryRowVerified ==
    \A m \in messages : m.signature = "valid"

\* C5: referential integrity: every attachment row references an existing
\* message row and every message row an existing room row, in every state; a
\* deleteMessage that removes a row leaves no attachment of it behind.
C5_ReferentialIntegrity ==
    /\ \A a \in attachments : \E m \in messages : m.id = a.message_id
    /\ \A m \in messages : \E r \in rooms : r.id = m.room_id
    /\ (lastOp.op = "deleteMessage" /\ lastOp.ret)
          => AttachmentsOf(attachments, {lastOp.id}) = {}

\* C5 witness: deleteMessage has removed a message together with its attachments
C5_Witness ==
    /\ lastOp.op = "deleteMessage" /\ lastOp.ret
    /\ lastOp.attachmentsDeleted > 0

\* the last step ran an insert for this message id (the bulk endpoint, or the
\* insert a broadcast started)
InsertedId(id) ==
    \/ lastOp'.op = "sendMessages" /\ \E i \in 1..Len(lastOp'.batch) : lastOp'.batch[i].id = id
    \/ lastOp'.op = "insertMessage" /\ lastOp'.task.message.id = id

\* C6: message ids are unique: the store holds at most one row per id, and a
\* step that inserts an id already present leaves the messages and attachments
\* tables as they were and starts no attachment insert.
C6_IdUnique ==
    [][ /\ \A m1, m2 \in messages' : m1.id = m2.id => m1 = m2
        /\ \A m \in messages : InsertedId(m.id) =>
              /\ messages' = messages
              /\ attachments' = attachments
              /\ \A t \in TaskIds : tasks'[t].ins = "att" => tasks[t].ins = "att"
      ]_vars

\* C6 witness: an insert met a row with its id, of another sender and room
C6_Witness ==
    /\ lastOp.op = "sendMessages"
    /\ \E m \in messages :
          /\ m.id = lastOp.batch[1].id
          /\ m.public_key # lastOp.batch[1].publicKey
          /\ \E r \in rooms : r.id = m.room_id /\ r.name # lastOp.room

\* the requester owns the stored row or is the admin
Authorised(messageTable, id, publicKey) ==
    \E m \in messageTable : m.id = id /\ (m.public_key = publicKey \/ publicKey = ADMIN_PUBLIC_KEY)

\* C7: deleteMessage removes the row only for the owner of the stored row or
\* the admin; for anyone else, and for an unknown id, it returns false and
\* leaves the messages and attachments tables unchanged.
C7_DeleteOnlyByOwnerOrAdmin ==
    [][ (lastOp'.op = "deleteMessage") =>
          IF Authorised(messages, lastOp'.id, lastOp'.publicKey)
          THEN lastOp'.ret => ~ \E m \in messages' : m.id = lastOp'.id
          ELSE /\ lastOp'.ret = FALSE
               /\ messages' = messages
               /\ attachments' = attachments
      ]_vars

\* C7 witness: a delete request of a key that is neither owner nor admin was
\* refused and the row is still there
C7_Witness ==
    /\ lastOp.op = "deleteMessage" /\ lastOp.ret = FALSE
    /\ lastOp.publicKey # ADMIN_PUBLIC_KEY
    /\ \E m \in messages :
          m.id = lastOp.id /\ m.public_key \in Keys /\ m.public_key # lastOp.publicKey

\* C8: a signaling frame goes only to a connection whose key is the target's
\* and that is joined to the sender's room.
C8_SignalingSameRoom ==
    lastOp.op = "signaling" =>
        \A c \in Conns : out[c] # << >> =>
            /\ c \in DOMAIN clientsMap
            /\ clientsMap[c].user.publicKey = lastOp.target
            /\ clientsMap[c].room = clientsMap[lastOp.ws].room

\* C9: a broadcast from a joined connection goes as a full frame to every other
\* open connection joined to the originator's room and to no connection joined
\* to another room; the originator receives no full frame.
C9_BroadcastToOwnRoom ==
    (IsFanout /\ lastOp.task.ws \in DOMAIN clientsMap) =>
        LET ws == lastOp.task.ws
            room == clientsMap[ws].room
        IN  \A c \in Conns :
              /\ (c # ws /\ c \in wssClients /\ readyState[c] = "OPEN"
                    /\ c \in DOMAIN clientsMap /\ clientsMap[c].room = room)
                   => Sent(c, "broadcast") # {}
              /\ (c \in DOMAIN clientsMap /\ clientsMap[c].room # room)
                   => Sent(c, "broadcast") = {}
              /\ Sent(ws, "broadcast") = {}

\* C10: relay mode delivers: when the fan-out of a validly signed broadcast of a
\* key that is not blocked runs for a connection that is joined and open, the
\* originator gets ack{id} and every other open member of the room the full
\* frame; and the insert the pipeline started leaves a SAVED row with that id.
C10_RelayDelivers ==
    /\ (/\ IsFanout
        /\ lastOp.task.ret \in {"saved", "exists"}
        /\ lastOp.task.ws \in DOMAIN clientsMap
        /\ readyState[lastOp.task.ws] = "OPEN")
          => /\ \E i \in Sent(lastOp.task.ws, "ack") :
                    out[lastOp.task.ws][i].id = lastOp.task.message.id
             /\ \A c \in Conns \ {lastOp.task.ws} :
                    (/\ c \in wssClients /\ readyState[c] = "OPEN"
                     /\ c \in DOMAIN clientsMap
                     /\ clientsMap[c].room = lastOp.task.room)
                       => Sent(c, "broadcast") # {}
    /\ (IsInsert /\ lastOp.result # "failed")
          => \E m \in messages : m.id = lastOp.task.message.id

\* C11: client sync removes upstream deletions: once a loadRoomMessages that
\* obtained the server's id set S (empty or not) has ended, neither the list it
\* returns nor the room's IndexedDB entry holds a message that is SAVED and
\* whose id is not in S.
C11_SyncRemovesUpstreamDeletions ==
    (sync.pc = "done" /\ sync.obtained) =>
        /\ \A i \in 1..Len(sync.messages) :
              sync.messages[i].state = SAVED => sync.messages[i].id \in sync.serverIds
        /\ \A i \in 1..Len(idb.messages) :
              idb.messages[i].state = SAVED => idb.messages[i].id \in sync.serverIds

\* C12: client sync keeps unacknowledged work: a message that was cached when
\* loadRoomMessages began, is not SAVED and lies inside the retention window is
\* in the returned list and in the IndexedDB entry when it ends, whatever the
\* server answered (ids, no ids, or an error).
C12_SyncKeepsUnacknowledged ==
    sync.pc = "done" =>
        \A i \in 1..Len(sync.before) :
            (sync.before[i].state # SAVED /\ InRetention(sync.before[i], sync.days))
                => /\ sync.before[i].id \in SeqIds(sync.messages)
                   /\ idb.has
                   /\ sync.before[i].id \in SeqIds(idb.messages)

\* C12 witness: a sync that obtained a non-empty id set has ended, and a cached
\* unacknowledged message inside the retention window was not in that set
C12_Witness ==
    /\ sync.pc = "done" /\ sync.obtained /\ sync.serverIds # {}
    /\ \E i \in 1..Len(sync.before) :
          /\ sync.before[i].state = SENT
          /\ InRetention(sync.before[i], sync.days)
          /\ sync.before[i].id \notin sync.serverIds

\* C13: getMessagesByIds(ids, room) returns only messages whose row has the
\* room_id of the room the key resolves to (by id for a key of digits, by name
\* otherwise), and nothing when the key resolves to no room.
C13_FetchScopedToRoom ==
    lastOp.op = "getMessagesByIds" =>
        LET found == RoomOfKey(rooms, lastOp.room)
        IN  /\ (found = {} => lastOp.messages = << >>)
            /\ \A i \in 1..Len(lastOp.messages) :
                  /\ lastOp.messages[i].id \in lastOp.ids
                  /\ \E m \in messages, r \in found :
                        m.id = lastOp.messages[i].id /\ m.room_id = r.id

\* C13 witness: a request returned a message of the room and omitted a
\* requested id that is stored in another room
C13_Witness ==
    /\ lastOp.op = "getMessagesByIds"
    /\ Len(lastOp.messages) > 0
    /\ \E id \in lastOp.ids :
          /\ id \notin SeqIds(lastOp.messages)
          /\ \E m \in messages : m.id = id

\* C14: deleteRoom(name) whose statements execute: on an existing room it
\* returns true, removes the rooms row, the room's messages and their
\* attachments and nothing else; on a room that does not exist it returns false
\* and changes nothing.  A deleteRoom(name) right after a successful
\* deleteRoom(name) returns false and changes nothing.
C14_DeleteRoomIdempotent ==
    [][ (lastOp'.op = "deleteRoom") =>
          /\ ~lastOp'.storeFails =>
               IF RoomExists(rooms, lastOp'.room)
               THEN LET roomId == RoomIdOf(rooms, lastOp'.room)
                        gone == { m.id : m \in MessagesOfRoom(messages, roomId) }
                    IN  /\ lastOp'.ret
                        /\ rooms' = { r \in rooms : r.name # lastOp'.room }
                        /\ messages' = { m \in messages : m.room_id # roomId }
                        /\ attachments' = { a \in attachments : a.message_id \notin gone }
               ELSE /\ ~lastOp'.ret
                    /\ rooms' = rooms /\ messages' = messages /\ attachments' = attachments
          /\ (lastOp.op = "deleteRoom" /\ lastOp.ret /\ lastOp.room = lastOp'.room) =>
               /\ ~lastOp'.ret
               /\ rooms' = rooms /\ messages' = messages /\ attachments' = attachments
      ]_vars

\* C14 witness: a deleteRoom right after a successful deleteRoom of the same
\* room has returned false
C14_Witness ==
    /\ lastOp.op = "deleteRoom" /\ lastOp.repeated /\ ~lastOp.ret /\ ~lastOp.storeFails

\* C15: a verified join sends the joining connection exactly one room-info frame
\* for that room whose participants are the participants registered in the room
\* before the join other than the joiner's key (none for the first joiner), and
\* sends no frame to any other connection.
C15_JoinAnswersRoomInfo ==
    [][ (lastOp'.op = "join" /\ lastOp'.ok) =>
          LET registered == MapValues(getOrCreateRoomInfo(lastOp'.room))
              expected == { p \in registered : p.publicKey # lastOp'.publicKey }
          IN  /\ out'[lastOp'.ws] = <<[type |-> "room-info", participants |-> expected,
                                       room |-> lastOp'.room]>>
              /\ \A c \in Conns \ {lastOp'.ws} : out'[c] = << >>
      ]_vars

\* a join answered with a room-info that lists an earlier participant, whose
\* connection is open and joined to the room
C15_Witness ==
    /\ lastOp.op = "join" /\ lastOp.ok
    /\ out[lastOp.ws] # << >>
    /\ out[lastOp.ws][1].participants # {}
    /\ \E c \in Conns \ {lastOp.ws} :
          /\ c \in DOMAIN clientsMap /\ clientsMap[c].room = lastOp.room
          /\ readyState[c] = "OPEN"

\* C16: when a joined connection closes, its participant is removed from its
\* room, every other open connection joined to that room receives one user-left
\* frame naming the closed connection's user and room, and the closed
\* connection receives nothing.
C16_CloseNotifiesRoom ==
    [][ (lastOp'.op = "close" /\ lastOp'.ws \in DOMAIN clientsMap) =>
          LET ws == lastOp'.ws
              room == clientsMap[ws].room
              user == clientsMap[ws].user
          IN  /\ room \in DOMAIN roomsMap' => user.publicKey \notin DOMAIN roomsMap'[room]
              /\ \A c \in Conns \ {ws} :
                    (/\ c \in wssClients /\ readyState[c] = "OPEN"
                     /\ c \in DOMAIN clientsMap /\ clientsMap[c].room = room)
                       => out'[c] = <<[type |-> "user-left", user |-> user, room |-> room]>>
              /\ out'[ws] = << >>
      ]_vars

C18_OfferVerifiedAtServer ==
    (/\ lastOp.op = "signaling"
     /\ lastOp.type = "offer"
     /\ ~verifySignature([signature |-> lastOp.signature]))
        => out = NoFrames

\* C19: a broadcast, offer, answer or ice-candidate frame received on a
\* connection that has not joined has no effect: its pipeline writes no room
\* and no message to the store, and nothing is sent to any connection.  (A
\* socket that is open and absent from clientsMap has never joined: entries
\* leave the map only when their socket closes.)
C19_UnjoinedFrameHasNoEffect ==
    /\ (/\ lastOp.op \in {"insertRoom", "insertMessage", "insertAttachment", "fanout"}
        /\ lastOp.task.ws \notin DOMAIN clientsMap
        /\ readyState[lastOp.task.ws] = "OPEN")
          => /\ lastOp.op = "fanout"
             /\ out = NoFrames
    /\ (lastOp.op = "signaling" /\ lastOp.ws \notin DOMAIN clientsMap)
          => out = NoFrames

\* the positions of onBroadcast between the receipt of the frame and its return
InPipeline == {"isBlocked", "selMsg", "selRoom", "insRoom", "fanout"}

\* C20: per-connection ordering: the pipeline of a broadcast frame has completed
\* before the pipeline of the next frame of the same connection begins, so no
\* two pipelines of one connection are in progress together.
C20_PerConnectionOrder ==
    \A t, u \in TaskIds :
        (t # u /\ tasks[t].pc \in InPipeline /\ tasks[u].pc \in InPipeline)
            => tasks[t].ws # tasks[u].ws

\* the connections joined to a room under a key: they are in clientsMap (their
\* socket has not been closed) with that room and that key
JoinedAs(room, publicKey) ==
    { c \in DOMAIN clientsMap :
        clientsMap[c].room = room /\ clientsMap[c].user.publicKey = publicKey }

\* C21: a public key occupies at most one participant slot: no key is
\* registered as a participant of two rooms, and no room lists a participant
\* without a joined connection for that key in that room.
C21_OneSlotPerKey ==
    /\ \A r1, r2 \in DOMAIN roomsMap :
          (DOMAIN roomsMap[r1] \cap DOMAIN roomsMap[r2] # {}) => r1 = r2
    /\ \A r \in DOMAIN roomsMap : \A k \in DOMAIN roomsMap[r] : JoinedAs(r, k) # {}

\* C22: registry reclamation: while an open joined connection remains in a room
\* the room's entry and that connection's participant slot remain, and a room
\* has an entry only while some joined connection remains in it.
C22_RegistryReclaimed ==
    /\ \A c \in DOMAIN clientsMap :
          readyState[c] = "OPEN" =>
              /\ clientsMap[c].room \in DOMAIN roomsMap
              /\ clientsMap[c].user.publicKey \in DOMAIN roomsMap[clientsMap[c].room]
    /\ \A r \in DOMAIN roomsMap : \E c \in DOMAIN clientsMap : clientsMap[c].room = r

\* C23: a blocked key is denied persistence on every path: no step, of a
\* broadcast or of a send-messages request, inserts a message row whose
\* public_key is in the block list.
C23_BlockedKeyNeverInserted ==
    [][ \A m \in messages' \ messages : m.public_key \notin blocked_keys ]_vars

\* C24: when the content deletion of a block-user request fails, the key is in
\* the block list once the request has been answered.
C24_BlockAppliedWhenDeleteFails ==
    (lastOp.op = "deleteUserContent" /\ lastOp.failed)
        => lastOp.publicKey \in blocked_keys

\* C25: saveMessages returns the number of message rows actually inserted: the
\* count a send-messages request gets equals the growth of the messages table.
C25_NumSavedIsGrowth ==
    [][ lastOp'.op = "sendMessages" =>
          lastOp'.numSaved = Cardinality(messages') - Cardinality(messages) ]_vars

\* the message a client sent of which a row is the record
SentAs(row) ==
    CHOOSE m \in ChatMessages : m.id = row.id /\ m.publicKey = row.public_key

\* C26: persistMessage is atomic on the broadcast path: in every state a
\* reader can see, a message row has all the attachment rows of its message.
C26_MessageWithAllAttachments ==
    \A row \in messages :
        Cardinality({ a \in attachments : a.message_id = row.id })
            = Len(SentAs(row).attachments)

\* C27: getOrCreateRoom is safe under concurrency: no call fails on a name
\* another call has just inserted, there is one rooms row for a name, and every
\* pipeline that obtained a room id holds the id of its room's row.
C27_GetOrCreateRoomConcurrent ==
    /\ lastOp.op # "rejected"
    /\ \A r1, r2 \in rooms : r1.name = r2.name => r1 = r2
    /\ \A t \in TaskIds :
          (tasks[t].roomId # 0 /\ RoomExists(rooms, tasks[t].room))
              => tasks[t].roomId = RoomIdOf(rooms, tasks[t].room)

\* C28: every full broadcast frame the server relays carries message.state =
\* SAVED, also when the message id was already in the store.
C28_RelayedStateSaved ==
    \A c \in Conns : \A i \in Sent(c, "broadcast") : out[c][i].message.state = SAVED

\* C29: last-writer-wins routing: a signaling frame is delivered only to the
\* connection that holds the target key's participant slot of its room (the one
\* that joined last under that key), never to an earlier connection of the key.
C29_LastJoinedReceives ==
    lastOp.op = "signaling" =>
        \A c \in Conns : out[c] # << >> =>
            /\ c \in DOMAIN clientsMap
            /\ clientsMap[c].room \in DOMAIN roomsMap
            /\ lastOp.target \in DOMAIN roomsMap[clientsMap[c].room]
            /\ roomsMap[clientsMap[c].room][lastOp.target].name = c

\* a loadRoomMessages has just ended whose requests to the server all succeeded
SyncSucceeded ==
    /\ lastOp.op \in {"syncGetIds", "syncFetch"}
    /\ ~lastOp.fails
    /\ sync.pc = "done" /\ sync.obtained

\* C30: after a room-open sync that succeeded against the server id set S,
\* every message of the cache (and of the returned list) whose id is in S is
\* SAVED, and every message the by-id endpoint returned is in the cache (and in
\* the returned list) exactly once.
C30_SyncPromotesAndFetches ==
    SyncSucceeded =>
        /\ \A i \in 1..Len(idb.messages) :
              idb.messages[i].id \in sync.serverIds => idb.messages[i].state = SAVED
        /\ \A i \in 1..Len(sync.messages) :
              sync.messages[i].id \in sync.serverIds => sync.messages[i].state = SAVED
        /\ lastOp.op = "syncFetch" =>
              \A j \in 1..Len(lastOp.fetched) :
                  /\ Cardinality({ i \in 1..Len(idb.messages) :
                                     idb.messages[i].id = lastOp.fetched[j].id }) = 1
                  /\ Cardinality({ i \in 1..Len(idb.messages) :
                                     idb.messages[i] = lastOp.fetched[j] }) = 1
                  /\ Cardinality({ i \in 1..Len(sync.messages) :
                                     sync.messages[i].id = lastOp.fetched[j].id }) = 1

\* a sync succeeded that promoted a cached message that was not SAVED and whose
\* id is in S, and that fetched a message missing from the cache
C30_Witness ==
    /\ SyncSucceeded
    /\ lastOp.op = "syncFetch" /\ Len(lastOp.fetched) > 0
    /\ \E i \in 1..Len(sync.before) :
          /\ sync.before[i].state # SAVED
          /\ sync.before[i].id \in sync.serverIds
          /\ sync.before[i].id \in SeqIds(idb.messages)

\* a list of messages is in ascending order of timestamp
Ascending(msgs) ==
    \A i, j \in 1..Len(msgs) : i < j => msgs[i].timestamp <= msgs[j].timestamp

\* C31: the list a room-open sync returns, and the list it writes back, is in
\* ascending order of timestamp, also when no message had to be fetched.
C31_SyncReturnsAscending ==
    (sync.pc = "done" /\ sync.obtained) =>
        /\ Ascending(sync.messages)
        /\ sync.dirty => Ascending(idb.messages)

C34_HistoryDaysClamped ==
    lastOp.op = "getMessageIds" =>
        LET found == RoomOfKey(rooms, lastOp.room)
            days == IF lastOp.days < 2 THEN 2 ELSE lastOp.days
            listed == { m \in messages :
                          /\ \E r \in found : m.room_id = r.id
                          /\ (lastOp.given => m.timestamp >= Now - days) }
        IN  lastOp.ids = { m.id : m \in listed }

\* C35: a store failure inside the delete-room or delete-message handler is
\* answered with a 5xx status, never with 404 and never with a success.
C35_StoreFailureIs5xx ==
    (lastOp.op \in {"deleteRoom", "deleteMessage"} /\ lastOp.storeFails) =>
        lastOp.status >= 500

\* C36: a delete-msg frame is sent only by a delete-message request that
\* removed the row; a refused request or an unknown id sends none.
C36_DeleteFrameOnlyOnRemoval ==
    (\E c \in Conns : \E i \in 1..Len(out[c]) : out[c][i].type = "delete-msg") =>
        (lastOp.op = "deleteMessage" /\ lastOp.ret)

\* C38: every delete-attachment request is answered by the time its handler
\* has returned (nothing answers it later): with a success when the attachment
\* was deleted, 400 for an id that is not a number, 404 when there is no such
\* attachment, and an error status when the store failed.
C38_DeleteAttachmentAnswered ==
    lastOp.op = "deleteAttachment" =>
        /\ lastOp.status # NoResponse
        /\ lastOp.ret => lastOp.status = 200
        /\ lastOp.isNaN => lastOp.status = 400
        /\ (~lastOp.isNaN /\ ~lastOp.existed /\ ~lastOp.storeFails) => lastOp.status = 404
        /\ (~lastOp.isNaN /\ lastOp.storeFails) => lastOp.status >= 400

\* C33: on room open, in server mode the resend posts exactly the listed
\* messages signed by the client's own key whose state is not SAVED; when the
\* server answers allOk they are all SAVED afterwards, in the list and in the
\* cache; when the request fails or allOk is false the list and the cache stay
\* as they were; in P2P mode nothing is posted and nothing changes.
C33_ResendOnOpen ==
    [][ lastOp'.op = "resendFailedMessages" =>
          LET own == { i \in 1..Len(sync.messages) :
                         /\ sync.messages[i].publicKey = lastOp'.publicKey
                         /\ sync.messages[i].state # SAVED }
              posted == lastOp'.posted
          IN  /\ sync.saveToServer =>
                    /\ Len(posted) = Cardinality(own)
                    /\ \A i \in own : \E j \in 1..Len(posted) : posted[j] = sync.messages[i]
              /\ ~sync.saveToServer => posted = << >>
              /\ (sync.saveToServer /\ own # {} /\ lastOp'.response = "allOk") =>
                    /\ Len(sync'.messages) = Len(sync.messages)
                    /\ \A i \in 1..Len(sync.messages) :
                          sync'.messages[i] =
                              IF i \in own THEN [sync.messages[i] EXCEPT !.state = SAVED]
                              ELSE sync.messages[i]
                    /\ idb'.has /\ idb'.messages = sync'.messages
              /\ (~sync.saveToServer \/ own = {} \/ lastOp'.response # "allOk") =>
                    /\ sync'.messages = sync.messages
                    /\ idb' = idb ]_vars

\* C39: the client dedupes inbound messages by id: an inbound message is
\* appended to the list exactly when no listed message has its id, so the list
\* never gains a second message with an id and never loses one with a new id.
C39_DedupeById ==
    [][ lastOp'.op = "persistInboundMessage" =>
          LET known == lastOp'.msg.id \in SeqIds(sync.messages)
          IN  sync'.messages = IF known THEN sync.messages
                               ELSE Append(sync.messages, lastOp'.msg) ]_vars

\* C37: once _connect has replaced the signaling socket, a late close event of
\* the previous socket leaves the new session as it is: connected, the peer
\* connections and the participants do not change.
C37_SessionIsolation ==
    [][ lastOp'.op = "_onclose" =>
          LET k == lastOp'.key
          IN  (rtc[k].socket # 0 /\ lastOp'.gen # rtc[k].socket) =>
                  /\ rtc'[k].connected = rtc[k].connected
                  /\ rtc'[k].peerConnections = rtc[k].peerConnections
                  /\ rtc'[k].participants = rtc[k].participants ]_vars

\* C40: when an offer reaches a peer that holds an outstanding local offer to
\* its sender, the tie-break is by key: the peer with the higher key discards
\* its connection and answers as non-initiator, the peer with the lower key
\* ignores the offer and keeps its own; of two distinct keys exactly one is
\* lower.  The answer reaches the sender while its socket is open.
C40_GlareByKey ==
    [][ (lastOp'.op = "_onOffer" /\ lastOp'.glare) =>
          LET k == lastOp'.key
              p == lastOp'.sender
              higher == localeCompare(k, p) > 0
          IN  /\ k # p => (localeCompare(k, p) < 0) # (localeCompare(p, k) < 0)
              /\ lastOp'.rolledBack = higher
              /\ lastOp'.ignored = ~higher
              /\ higher =>
                    /\ rtc'[k].peerConnections[p] =
                           [signalingState |-> "stable", isInitiator |-> FALSE]
                    /\ rtc[p].open => Frame("answer", k, {}) \in rtc'[p].inbox
              /\ ~higher =>
                    /\ rtc'[k].peerConnections = rtc[k].peerConnections
                    /\ rtc'[p] = rtc[p] ]_vars

C40_Witness ==
    /\ lastOp.op = "_onOffer" /\ lastOp.glare /\ lastOp.ignored
    /\ lastOp.key = "kA" /\ lastOp.sender = "kB"
    /\ rtc["kA"].peerConnections["kB"] = [signalingState |-> "have-local-offer", isInitiator |-> TRUE]
    /\ "kA" \in DOMAIN rtc["kB"].peerConnections
    /\ rtc["kB"].peerConnections["kA"] = [signalingState |-> "stable", isInitiator |-> FALSE]
    /\ Frame("answer", "kB", {}) \in rtc["kA"].inbox

====
